---------------------------- MODULE Spec2Model ----------------------------
(*
  A model of pgm::process (src/process.hpp, src/process.cpp): the process
  handle and its lifecycle state machine, the spawning constructor with its
  pipes, the wait engine (state, join, try_join_for_, detach, raise) and the
  read adapter ifilebuf.

  The operating system is the environment: the child processes, their wait
  statuses, the SIGCHLD disposition of the parent and the parent's descriptor
  table.  The parent is one thread; join and try_join_for_ block, so they are
  split where the parent waits and the child can move.
*)
EXTENDS Integers, Sequences, FiniteSets, TLC

\* ------------------------------------------------------------------ bounds
MaxSpawn == 1        \* spawn attempts (and so child processes) in one run
MaxLen == 3          \* length of the input behind a read adapter
MaxProg == 2         \* reads and writes the entry point of a child makes
MaxIn == 2           \* bytes the parent writes to the cin stream
PipeCap == 1         \* bytes a pipe holds before a write to it blocks
FileCap == 1         \* bytes the FILE of the write adapter buffers

\* --------------------------------------------------------- program constants
SIGKILL == 9
SIGTERM == 15
EXIT_FAILURE == 1
SelfPid == 1         \* ::getpid() of the parent
NullPid == 0         \* process::id(): handle_ { }

Handles == {1, 2}
Attempts == 1..MaxSpawn
Pid(k) == SelfPid + k               \* the pid fork() gives to the k-th child
ExitCodes == {0, 7, 263}            \* what an entry point may return
TermSignals == {SIGTERM, SIGKILL}   \* process::terminate(), process::kill()
StopSignals == {19}                 \* SIGSTOP
ContSignals == {18}                 \* SIGCONT
Signals == TermSignals \cup StopSignals \cup ContSignals
FdLimit == 4 + 6 * MaxSpawn
Fds == 0..(FdLimit - 1)
CallerFds == {3}                    \* what the caller holds open besides 0, 1, 2
GarbageFds == {-1} \cup CallerFds   \* what an uninitialised int may hold
PipeNames == {"o", "i", "e"}

VARIABLES
  handle,    \* handle[h]: one process object (or an empty slot)
  child,     \* child[k]: the OS's view of the k-th spawned process
  fds,       \* the parent's descriptor table
  sigchld,   \* the parent's SIGCHLD disposition
  nspawn,    \* spawn attempts made
  pc,        \* where the parent thread is
  cur,       \* the blocking call in progress
  result,    \* what the last finished call of the parent did
  aborted,   \* std::terminate() was called
  bfile, bpos, bbuf, bgptr,   \* ifilebuf: the FILE's bytes and position, buffer_, gptr
  bhist, bcan, bres,          \* what the adapter's caller has seen
  cfds,      \* the child's descriptor table
  cpc,       \* where the child is in the constructor
  prog, cip, \* what the entry point does, and how far it has come
  pipe,      \* the bytes in the stdin and the stderr pipe
  sent,      \* the bytes the parent has written to cin
  fbuf,      \* of these, the bytes still in the FILE of the write adapter
  got        \* the bytes the child has read from its standard input

lifeVars == <<handle, child, fds, sigchld, nspawn, pc, cur, result, aborted>>
bufVars == <<bfile, bpos, bbuf, bgptr, bhist, bcan, bres>>
pipeVars == <<cfds, cpc, prog, cip, pipe, sent, fbuf, got>>
vars == <<handle, child, fds, sigchld, nspawn, pc, cur, result, aborted,
          bfile, bpos, bbuf, bgptr, bhist, bcan, bres,
          cfds, cpc, prog, cip, pipe, sent, fbuf, got>>

\* ------------------------------------------------------------ wait status
\* The status word as the OS encodes it and as <sys/wait.h> decodes it.
StatusExited(code) == (code % 256) * 256
StatusSignaled(sig) == sig % 128
StatusStopped(sig) == (sig % 256) * 256 + 127

WIFEXITED(status) == (status % 128) = 0
WEXITSTATUS(status) == (status \div 256) % 256
WIFSIGNALED(status) == (status % 128) # 0 /\ (status % 128) # 127
WTERMSIG(status) == status % 128
WIFSTOPPED(status) == (status % 256) = 127
WSTOPSIG(status) == (status \div 256) % 256

\* ------------------------------------------------------------ the handle
NoHandle ==
  [alive |-> FALSE, id |-> NullPid, state |-> "not_started",
   code |-> -1, signal |-> -1,
   fbi |-> 0, fbo |-> 0, fbe |-> 0, cin |-> 0, cout |-> 0, cerr |-> 0,
   ch |-> 0]

\* process::process(): the members' default initialisers
DefaultHandle == [NoHandle EXCEPT !.alive = TRUE]

joinable(p) == p.id # NullPid

\* process::update(int status) with the exit status stored as it came, not
\* decoded by WEXITSTATUS: a faulty variant that JoinReportsOutcome rejects.
UpdateRawCode(p, status) ==
  IF WIFEXITED(status)
    THEN [p EXCEPT !.state = "exited", !.code = status, !.id = NullPid]
  ELSE IF WIFSIGNALED(status)
    THEN [p EXCEPT !.state = "signaled", !.signal = WTERMSIG(status), !.id = NullPid]
  ELSE IF WIFSTOPPED(status)
    THEN [p EXCEPT !.state = "stopped", !.signal = WSTOPSIG(status)]
  ELSE p

\* process::update(int status)
update(p, status) ==
  IF WIFEXITED(status)
    THEN [p EXCEPT !.state = "exited", !.code = WEXITSTATUS(status), !.id = NullPid]
  ELSE IF WIFSIGNALED(status)
    THEN [p EXCEPT !.state = "signaled", !.signal = WTERMSIG(status), !.id = NullPid]
  ELSE IF WIFSTOPPED(status)
    THEN [p EXCEPT !.state = "stopped", !.signal = WSTOPSIG(status)]
  ELSE p


\* --------------------------------------------------- the operating system
\* st: where the OS has the process; fate: how it ended (what the entry point
\* did, or the signal that killed it); stopsig, rep: the signal that stopped
\* it and whether a waitpid without WUNTRACED still has that stop to report
\* (it does for a traced child only).
NoChild == [st |-> "unborn", stopsig |-> 0, rep |-> FALSE, fate |-> <<"none", 0>>]

\* The status word the OS keeps for a child that ended.
StatusOf(fate) ==
  IF fate[1] = "killed" THEN StatusSignaled(fate[2])
  ELSE IF fate[1] = "threw" THEN StatusExited(EXIT_FAILURE)
  ELSE StatusExited(fate[2])

ChildOf(pid) == pid - SelfPid
Terminated(c) == c.st \in {"zombie", "gone", "reused"}
Alive(c) == c.st \in {"running", "stopped"}

\* A child ends with the given status.  With SIGCHLD ignored the OS discards
\* the status at once; otherwise the child stays a zombie until it is reaped.
Ended(c, fate) ==
  [c EXCEPT !.st = IF sigchld = "ign" THEN "gone" ELSE "zombie",
            !.fate = fate, !.rep = FALSE, !.stopsig = 0]

\* What a signal does to a child that receives it.
Deliver(c, sig, traced) ==
  IF ~Alive(c) THEN c
  ELSE IF sig = SIGKILL \/ (sig = SIGTERM /\ c.st = "running")
    THEN Ended(c, <<"killed", sig>>)
  ELSE IF sig \in StopSignals /\ c.st = "running"
    THEN [c EXCEPT !.st = "stopped", !.stopsig = sig, !.rep = traced]
  ELSE IF sig \in ContSignals /\ c.st = "stopped"
    THEN [c EXCEPT !.st = "running", !.stopsig = 0, !.rep = FALSE]
  ELSE c

\* SIGCHLD reaches the parent: a handler interrupts nanosleep (EINTR), the
\* default and the ignoring disposition do not.
Notify(cu) ==
  IF pc = "tj_sleep" /\ sigchld = "noop"
    THEN [cu EXCEPT !.woken = TRUE] ELSE cu

\* ::waitpid(pid, &status, options) as process::state() and process::join()
\* call it: options is WNOHANG or 0, never WUNTRACED or WCONTINUED, so a stop
\* is reported only for a traced child (rep) and a continue never.
WaitPid(cs, pid, nohang) ==
  LET k == ChildOf(pid) IN
  IF k \notin Attempts \/ cs[k].st \in {"unborn", "gone", "reused"}
    THEN [ret |-> "echild", status |-> 0, cs |-> cs]
  ELSE IF cs[k].st = "zombie"
    THEN [ret |-> "pid", status |-> StatusOf(cs[k].fate),
          cs |-> [cs EXCEPT ![k].st = "gone"]]
  ELSE IF cs[k].st = "stopped" /\ cs[k].rep
    THEN [ret |-> "pid", status |-> StatusStopped(cs[k].stopsig),
          cs |-> [cs EXCEPT ![k].rep = FALSE]]
  ELSE [ret |-> IF nohang THEN "zero" ELSE "block", status |-> 0, cs |-> cs]

\* ------------------------------------------------------- process::state()
RECURSIVE StateLoop(_, _)
StateLoop(p, cs) ==
  IF p.state \notin {"running", "stopped"} THEN [p |-> p, cs |-> cs]
  ELSE LET w == WaitPid(cs, p.id, TRUE) IN
       IF w.ret = "echild"
         THEN StateLoop([p EXCEPT !.state = "not_started"], w.cs)
       ELSE IF w.ret = "zero" THEN [p |-> p, cs |-> cs]
       ELSE StateLoop(update(p, w.status), w.cs)

\* What the last finished call of the parent was: the call, the handle it
\* was made on, the error it threw ("ok": none) and what it returned.
Res(op, h, err, ret) == [op |-> op, h |-> h, err |-> err, ret |-> ret]
NoResult == Res("none", 0, "ok", "none")
NoCall == [h |-> 0, saved |-> "dfl", woken |-> FALSE, pre |-> NoResult]
Done(err, ret) == [cur.pre EXCEPT !.err = err, !.ret = ret]

Idle == pc = "idle" /\ ~aborted

Poll(h) ==
  /\ Idle /\ handle[h].alive
  /\ LET r == StateLoop(handle[h], child) IN
       /\ handle' = [handle EXCEPT ![h] = r.p]
       /\ child' = r.cs
       /\ result' = Res("state", h, "ok", r.p.state)
  /\ UNCHANGED <<fds, sigchld, nspawn, pc, cur, aborted, bufVars, pipeVars>>

\* process::detach() that clears the identifier only: a faulty variant that
\* DetachForgetsChild rejects.
DetachKeepsState(h) ==
  /\ Idle /\ handle[h].alive
  /\ handle' = [handle EXCEPT ![h].id = NullPid, ![h].ch = 0]
  /\ result' = Res("detach", h, "ok", "none")
  /\ UNCHANGED <<child, fds, sigchld, nspawn, pc, cur, aborted, bufVars, pipeVars>>

\* ------------------------------------------------------ process::detach()
Detach(h) ==
  /\ Idle /\ handle[h].alive
  /\ handle' = [handle EXCEPT ![h].id = NullPid, ![h].state = "not_started",
                              ![h].ch = 0]
  /\ result' = Res("detach", h, "ok", "none")
  /\ UNCHANGED <<child, fds, sigchld, nspawn, pc, cur, aborted, bufVars, pipeVars>>

\* ------------------------------------------------------- process::raise()
\* ::kill(pid, signal): 0, or the errno it fails with.
KillErrno(c, perm) ==
  IF c.st \in {"running", "stopped", "zombie"} THEN "ok"
  ELSE IF c.st = "reused" THEN (IF perm THEN "ok" ELSE "operation_not_permitted")
  ELSE "no_such_process"

SigName(sig) == IF sig \in TermSignals THEN "term" ELSE "other"

\* Whether raise throws the error ::kill failed with (process.cpp:343); the
\* first is the faulty variant that does not swallow no_such_process.
RaiseThrowsAll(e) == e # "ok"
RaiseThrows(e) == e # "ok" /\ e # "no_such_process"

Raise(h, sig) ==
  /\ Idle /\ handle[h].alive
  /\ IF ~joinable(handle[h])
       THEN /\ result' = Res("raise", h, "invalid_argument", SigName(sig))
            /\ UNCHANGED child
       ELSE \E perm \in BOOLEAN, now \in BOOLEAN, traced \in BOOLEAN :
              LET k == ChildOf(handle[h].id)
                  e == KillErrno(child[k], perm) IN
              /\ child' = IF now THEN [child EXCEPT ![k] = Deliver(child[k], sig, traced)]
                                 ELSE child
              /\ result' = Res("raise", h,
                               IF RaiseThrows(e) THEN e ELSE "ok", SigName(sig))
  /\ UNCHANGED <<handle, fds, sigchld, nspawn, pc, cur, aborted, bufVars, pipeVars>>

\* -------------------------------------------------------- process::join()
JoinCall(h) ==
  /\ Idle /\ handle[h].alive
  /\ IF ~joinable(handle[h])
       THEN /\ result' = Res("join", h, "invalid_argument", "none")
            /\ UNCHANGED <<pc, cur>>
     ELSE IF handle[h].id = SelfPid
       THEN /\ result' = Res("join", h, "resource_deadlock_would_occur", "none")
            /\ UNCHANGED <<pc, cur>>
     ELSE IF handle[h].state \notin {"running", "stopped"}
       THEN /\ result' = Res("join", h, "ok", "noloop")
            /\ UNCHANGED <<pc, cur>>
     ELSE /\ pc' = "join"
          /\ cur' = [NoCall EXCEPT !.h = h, !.pre = Res("join", h, "ok", "none")]
          /\ UNCHANGED result
  /\ UNCHANGED <<handle, child, fds, sigchld, nspawn, aborted, bufVars, pipeVars>>

\* One return of the blocking ::waitpid(pid, &status, 0) in the loop.
JoinWait ==
  /\ pc = "join" /\ ~aborted
  /\ LET h == cur.h
         w == WaitPid(child, handle[h].id, FALSE)
         p == IF w.ret = "echild" THEN [handle[h] EXCEPT !.state = "not_started"]
              ELSE update(handle[h], w.status) IN
       /\ w.ret # "block"
       /\ handle' = [handle EXCEPT ![h] = p]
       /\ child' = w.cs
       /\ IF p.state \in {"running", "stopped"}
            THEN UNCHANGED <<pc, cur, result>>
            ELSE /\ pc' = "idle" /\ cur' = NoCall
                 /\ result' = Done("ok", IF w.ret = "echild" THEN "nochild" ELSE "reaped")
  /\ UNCHANGED <<fds, sigchld, nspawn, aborted, bufVars, pipeVars>>

\* The EINTR branch of join() made to degrade the state as the no-child branch
\* does: a faulty variant that NoChildIsNotAnError rejects.
JoinInterruptedDegrades ==
  /\ pc = "join" /\ ~aborted
  /\ pc' = "idle" /\ cur' = NoCall
  /\ handle' = [handle EXCEPT ![cur.h].state = "not_started"]
  /\ result' = Done("interrupted", "none")
  /\ UNCHANGED <<child, fds, sigchld, nspawn, aborted, bufVars, pipeVars>>

\* The blocking ::waitpid fails with EINTR (a handler installed without
\* SA_RESTART runs): the error is thrown.
JoinInterrupted ==
  /\ pc = "join" /\ ~aborted
  /\ pc' = "idle" /\ cur' = NoCall
  /\ result' = Done("interrupted", "none")
  /\ UNCHANGED <<handle, child, fds, sigchld, nspawn, aborted, bufVars, pipeVars>>

\* ----------------------------------------------- process::try_join_for_()
TryJoinCall(h) ==
  /\ Idle /\ handle[h].alive
  /\ IF ~joinable(handle[h])
       THEN /\ result' = Res("try_join_for", h, "invalid_argument", "none")
            /\ UNCHANGED <<handle, child, pc, cur>>
     ELSE IF handle[h].id = SelfPid
       THEN /\ result' = Res("try_join_for", h, "resource_deadlock_would_occur", "none")
            /\ UNCHANGED <<handle, child, pc, cur>>
     ELSE LET r == StateLoop(handle[h], child) IN
          /\ handle' = [handle EXCEPT ![h] = r.p]
          /\ child' = r.cs
          /\ IF r.p.state \notin {"running", "stopped"}
               THEN /\ result' = Res("try_join_for", h, "ok", "true")
                    /\ UNCHANGED <<pc, cur>>
               ELSE /\ pc' = "tj_guard"
                    /\ cur' = [NoCall EXCEPT !.h = h,
                                 !.pre = Res("try_join_for", h, "ok", "none")]
                    /\ UNCHANGED result
  /\ UNCHANGED <<fds, sigchld, nspawn, aborted, bufVars, pipeVars>>

\* guard(): before = std::signal(SIGCHLD, [](int){ })
TjGuard ==
  /\ pc = "tj_guard" /\ ~aborted
  /\ cur' = [cur EXCEPT !.saved = sigchld]
  /\ sigchld' = "noop"
  /\ pc' = "tj_nanosleep"
  /\ UNCHANGED <<handle, child, fds, nspawn, result, aborted, bufVars, pipeVars>>

\* ::nanosleep is entered, or refuses its argument (EINVAL): the error is
\* thrown and ~guard() restores the handler.
TjNanosleep ==
  /\ pc = "tj_nanosleep" /\ ~aborted
  /\ \/ /\ pc' = "tj_sleep"
        /\ cur' = [cur EXCEPT !.woken = FALSE]
        /\ UNCHANGED <<sigchld, result>>
     \/ /\ pc' = "idle" /\ cur' = NoCall
        /\ sigchld' = cur.saved
        /\ result' = Done("invalid_argument_os", "none")
  /\ UNCHANGED <<handle, child, fds, nspawn, aborted, bufVars, pipeVars>>

\* ::nanosleep returned -1 with EINTR: state() and, if terminal, return true.
TjInterrupted ==
  /\ pc = "tj_sleep" /\ ~aborted /\ cur.woken
  /\ LET r == StateLoop(handle[cur.h], child) IN
       /\ handle' = [handle EXCEPT ![cur.h] = r.p]
       /\ child' = r.cs
       /\ IF r.p.state \notin {"running", "stopped"}
            THEN /\ pc' = "idle" /\ cur' = NoCall
                 /\ sigchld' = cur.saved
                 /\ result' = Done("ok", "true")
            ELSE /\ cur' = [cur EXCEPT !.woken = FALSE]
                 /\ UNCHANGED <<pc, sigchld, result>>
  /\ UNCHANGED <<fds, nspawn, aborted, bufVars, pipeVars>>

\* The timeout path without ~guard(): a faulty variant that HandlerRestored
\* rejects.
TjTimeoutKeepsHandler ==
  /\ pc = "tj_sleep" /\ ~aborted /\ ~cur.woken
  /\ pc' = "idle" /\ cur' = NoCall
  /\ result' = Done("ok", "false")
  /\ UNCHANGED <<handle, child, fds, sigchld, nspawn, aborted, bufVars, pipeVars>>

\* ::nanosleep returned 0: the time is over, return false.
TjTimeout ==
  /\ pc = "tj_sleep" /\ ~aborted /\ ~cur.woken
  /\ pc' = "idle" /\ cur' = NoCall
  /\ sigchld' = cur.saved
  /\ result' = Done("ok", "false")
  /\ UNCHANGED <<handle, child, fds, nspawn, aborted, bufVars, pipeVars>>

\* ------------------------------------------- construction and destruction
Called(op, h, err) == Res(op, h, err, "none")

\* process::swap(process& rhs): the members are exchanged; the three streams
\* of *this are re-attached (process.cpp:238-240).
SwapThis(a, b) ==
  [a EXCEPT !.id = b.id, !.state = b.state, !.code = b.code, !.signal = b.signal,
            !.fbi = b.fbi, !.fbo = b.fbo, !.fbe = b.fbe, !.ch = b.ch,
            !.cout = b.fbo, !.cin = b.fbi, !.cerr = b.fbe]
SwapRhs(a, b) ==
  [b EXCEPT !.id = a.id, !.state = a.state, !.code = a.code, !.signal = a.signal,
            !.fbi = a.fbi, !.fbo = a.fbo, !.fbe = a.fbe, !.ch = a.ch]

Construct(h) ==
  /\ Idle /\ ~handle[h].alive
  /\ handle' = [handle EXCEPT ![h] = DefaultHandle]
  /\ result' = Called("process", h, "ok")
  /\ UNCHANGED <<child, fds, sigchld, nspawn, pc, cur, aborted, bufVars, pipeVars>>

\* process::process(process&& rhs)
MoveConstruct(h, r) ==
  /\ Idle /\ ~handle[h].alive /\ handle[r].alive /\ h # r
  /\ IF joinable(DefaultHandle)
       THEN /\ aborted' = TRUE
            /\ result' = Called("move", h, "terminate")
            /\ UNCHANGED handle
       ELSE /\ handle' = [handle EXCEPT ![h] = SwapThis(DefaultHandle, handle[r]),
                                        ![r] = SwapRhs(DefaultHandle, handle[r])]
            /\ result' = Called("move", h, "ok")
            /\ UNCHANGED aborted
  /\ UNCHANGED <<child, fds, sigchld, nspawn, pc, cur, bufVars, pipeVars>>

\* process::operator=(process&& rhs)
MoveAssign(h, r) ==
  /\ Idle /\ handle[h].alive /\ handle[r].alive /\ h # r
  /\ IF joinable(handle[h])
       THEN /\ aborted' = TRUE
            /\ result' = Res("assign", h, "terminate", "none")
            /\ UNCHANGED handle
       ELSE /\ handle' = [handle EXCEPT ![h] = SwapThis(handle[h], handle[r]),
                                        ![r] = SwapRhs(handle[h], handle[r])]
            /\ result' = Res("assign", h, "ok", "none")
            /\ UNCHANGED aborted
  /\ UNCHANGED <<child, fds, sigchld, nspawn, pc, cur, bufVars, pipeVars>>

Swap(h, r) ==
  /\ Idle /\ handle[h].alive /\ handle[r].alive /\ h # r
  /\ handle' = [handle EXCEPT ![h] = SwapThis(handle[h], handle[r]),
                              ![r] = SwapRhs(handle[h], handle[r])]
  /\ result' = Res("swap", h, "ok", "none")
  /\ UNCHANGED <<child, fds, sigchld, nspawn, pc, cur, aborted, bufVars, pipeVars>>

\* process::~process(): the adapters are deleted with the object; neither
\* ifilebuf nor ofilebuf has a destructor that closes its FILE.
Destroy(h) ==
  /\ Idle /\ handle[h].alive
  /\ IF joinable(handle[h])
       THEN /\ aborted' = TRUE
            /\ result' = Res("destroy", h, "terminate", "none")
            /\ UNCHANGED handle
       ELSE /\ handle' = [handle EXCEPT ![h] = NoHandle]
            /\ result' = Res("destroy", h, "ok", "none")
            /\ UNCHANGED aborted
  /\ UNCHANGED <<child, fds, sigchld, nspawn, pc, cur, bufVars, pipeVars>>

\* ---------------------------------------------------------------- pipes
Free == <<0, "free", "-">>
Std == <<0, "std", "-">>
User == <<0, "user", "-">>
rd == 1
wr == 2

LowestFree(t) == CHOOSE n \in Fds : t[n] = Free /\ \A m \in Fds : m < n => t[m] # Free

\* ::pipe(fp): the two lowest free descriptors
open(t, k, name) ==
  LET r == LowestFree(t)
      t1 == [t EXCEPT ![r] = <<k, name, "rd">>]
      w == LowestFree(t1) IN
  [t |-> [t1 EXCEPT ![w] = <<k, name, "wr">>], fp |-> <<r, w>>]

\* ::close(fd); EBADF is not looked at
Close(t, fd) == IF fd \in Fds THEN [t EXCEPT ![fd] = Free] ELSE t

\* close(fd_pipe fp)
close(t, fp) == Close(Close(t, fp[rd]), fp[wr])

\* The three open() calls, of which the first nopen succeed; an array that
\* ::pipe did not fill keeps what it held, which nothing initialised.
OpenPipes(t, k, nopen, g) ==
  LET po == IF nopen >= 1 THEN open(t, k, "o") ELSE [t |-> t, fp |-> g["o"]]
      pi == IF nopen >= 2 THEN open(po.t, k, "i") ELSE [t |-> po.t, fp |-> g["i"]]
      pe == IF nopen >= 3 THEN open(pi.t, k, "e") ELSE [t |-> pi.t, fp |-> g["e"]]
  IN [t |-> pe.t, fpo |-> po.fp, fpi |-> pi.fp, fpe |-> pe.fp]

\* catch(...) { close(fpo); close(fpi); close(fpe); throw; }
Cleanup(t, q) == close(close(close(t, q.fpo), q.fpi), q.fpe)

\* ifilebuf_from / ofilebuf_from for the first nbuf adapters: each closes the
\* end the parent does not use before fdopen is tried.
ParentEnds(t, q, nbuf) ==
  LET t1 == IF nbuf >= 1 THEN Close(t, q.fpo[wr]) ELSE t
      t2 == IF nbuf >= 2 THEN Close(t1, q.fpi[rd]) ELSE t1
  IN IF nbuf >= 3 THEN Close(t2, q.fpe[wr]) ELSE t2

\* The child after fork().  What it does before it ends (the three ::dup2,
\* then fn()) is not visible to the parent: it is decided where the child ends.
ChildBorn == [NoChild EXCEPT !.st = "running"]

\* ------------------------------- process::process(std::function<int()>&&)
Spawned(h, err, ret) ==
  Res("spawn", h, err, ret)

CanSpawn(h) == Idle /\ ~handle[h].alive /\ nspawn < MaxSpawn

\* open(fpo), open(fpi) or open(fpe) throws
SpawnPipeFails(h) ==
  /\ CanSpawn(h)
  /\ \E nopen \in 0..2, g \in [PipeNames -> GarbageFds \X GarbageFds] :
       LET q == OpenPipes(fds, nspawn + 1, nopen, g) IN
       /\ fds' = Cleanup(q.t, q)
       /\ result' = Spawned(h, "os_error", "nofork")
  /\ nspawn' = nspawn + 1
  /\ UNCHANGED <<handle, child, sigchld, pc, cur, aborted, bufVars, pipeVars>>

\* ::fork() returns -1
SpawnForkFails(h) ==
  /\ CanSpawn(h)
  /\ LET q == OpenPipes(fds, nspawn + 1, 3, [n \in PipeNames |-> <<-1, -1>>]) IN
       /\ fds' = Cleanup(q.t, q)
       /\ result' = Spawned(h, "os_error", "nofork")
  /\ nspawn' = nspawn + 1
  /\ UNCHANGED <<handle, child, sigchld, pc, cur, aborted, bufVars, pipeVars>>

\* fork() succeeded; in the parent the fdopen of the nbuf-th adapter fails
SpawnAdapterFails(h) ==
  /\ CanSpawn(h)
  /\ \E nbuf \in 1..3 :
       LET k == nspawn + 1
           q == OpenPipes(fds, k, 3, [n \in PipeNames |-> <<-1, -1>>]) IN
       /\ child' = [child EXCEPT ![k] = ChildBorn]
       /\ fds' = Cleanup(ParentEnds(q.t, q, nbuf), q)
       /\ result' = Spawned(h, "os_error", "forked")
  /\ nspawn' = nspawn + 1
  /\ UNCHANGED <<handle, sigchld, pc, cur, aborted, bufVars, pipeVars>>

\* the constructor returns in the parent
SpawnOk(h) ==
  /\ CanSpawn(h)
  /\ LET k == nspawn + 1
           q == OpenPipes(fds, k, 3, [n \in PipeNames |-> <<-1, -1>>]) IN
       /\ child' = [child EXCEPT ![k] = ChildBorn]
       /\ fds' = ParentEnds(q.t, q, 3)
       /\ handle' = [handle EXCEPT ![h] =
            [DefaultHandle EXCEPT !.id = Pid(k), !.state = "running", !.ch = k,
               !.fbo = q.fpo[rd], !.cout = q.fpo[rd],
               !.fbi = q.fpi[wr], !.cin = q.fpi[wr],
               !.fbe = q.fpe[rd], !.cerr = q.fpe[rd]]]
       /\ result' = Spawned(h, "ok", "forked")
  /\ nspawn' = nspawn + 1
  /\ UNCHANGED <<sigchld, pc, cur, aborted, bufVars, pipeVars>>

\* ------------------------------------------------------ the environment
\* write_to, read_from, write_to; code = fn(); std::exit(code)
ChildReturns(k) ==
  /\ ~aborted /\ child[k].st = "running"
  /\ \E code \in ExitCodes :
       child' = [child EXCEPT ![k] = Ended(child[k], <<"ret", code>>)]
  /\ cur' = Notify(cur)
  /\ UNCHANGED <<handle, fds, sigchld, nspawn, pc, result, aborted, bufVars, pipeVars>>

\* catch(...) { code = EXIT_FAILURE; } std::exit(code)
ChildThrows(k) ==
  /\ ~aborted /\ child[k].st = "running"
  /\ child' = [child EXCEPT ![k] = Ended(child[k], <<"threw", 0>>)]
  /\ cur' = Notify(cur)
  /\ UNCHANGED <<handle, fds, sigchld, nspawn, pc, result, aborted, bufVars, pipeVars>>

\* A ::dup2 in write_to or read_from fails in the child: posix::errno_error
\* is thrown, the catch(...) of the constructor closes the pipes and throws
\* again, and the exception leaves the constructor in the child.  The child
\* then runs the caller's code and ends as that code decides.
ChildEscapes(k) ==
  /\ ~aborted /\ child[k].st = "running"
  /\ \E code \in ExitCodes :
       child' = [child EXCEPT ![k] = Ended(child[k], <<"escaped", code>>)]
  /\ cur' = Notify(cur)
  /\ UNCHANGED <<handle, fds, sigchld, nspawn, pc, result, aborted, bufVars, pipeVars>>

\* A signal sent to the child by anyone (the effect of a raise that was not
\* immediate included).
ChildSignal(k) ==
  /\ ~aborted /\ Alive(child[k])
  /\ \E sig \in Signals, traced \in BOOLEAN :
       /\ Deliver(child[k], sig, traced) # child[k]
       /\ child' = [child EXCEPT ![k] = Deliver(child[k], sig, traced)]
  /\ cur' = Notify(cur)
  /\ UNCHANGED <<handle, fds, sigchld, nspawn, pc, result, aborted, bufVars, pipeVars>>

\* The zombie is reaped by someone else in the parent (a wait() elsewhere).
ExternalReap(k) ==
  /\ ~aborted /\ child[k].st = "zombie"
  /\ child' = [child EXCEPT ![k].st = "gone"]
  /\ UNCHANGED <<handle, fds, sigchld, nspawn, pc, cur, result, aborted, bufVars, pipeVars>>

\* The OS gives the pid of a reaped child to an unrelated process.
PidReuse(k) ==
  /\ ~aborted /\ child[k].st = "gone"
  /\ child' = [child EXCEPT ![k].st = "reused"]
  /\ UNCHANGED <<handle, fds, sigchld, nspawn, pc, cur, result, aborted, bufVars, pipeVars>>

\* The caller changes the SIGCHLD disposition between two calls.
SetSigchld ==
  /\ Idle
  /\ \E d \in {"dfl", "ign"} : d # sigchld /\ sigchld' = d
  /\ UNCHANGED <<handle, child, fds, nspawn, pc, cur, result, aborted, bufVars, pipeVars>>

\* Some other handled signal interrupts ::nanosleep.
Interrupt ==
  /\ pc = "tj_sleep" /\ ~aborted /\ ~cur.woken
  /\ cur' = [cur EXCEPT !.woken = TRUE]
  /\ UNCHANGED <<handle, child, fds, sigchld, nspawn, pc, result, aborted, bufVars, pipeVars>>

\* ------------------------------------------------------- specification
NoBufRes == [op |-> "none", ok |-> TRUE, byte |-> -1, n |-> 0, can |-> FALSE]

LifeInit ==
  /\ handle = [h \in Handles |-> NoHandle]
  /\ child = [k \in Attempts |-> NoChild]
  /\ fds = [n \in Fds |-> IF n < 3 THEN Std ELSE IF n \in CallerFds THEN User ELSE Free]
  /\ sigchld = "dfl"
  /\ nspawn = 0
  /\ pc = "idle"
  /\ cur = NoCall
  /\ result = NoResult
  /\ aborted = FALSE

BufIdle ==
  /\ bfile = <<>> /\ bpos = 0 /\ bbuf = 0 /\ bgptr = 1
  /\ bhist = <<>> /\ bcan = FALSE /\ bres = NoBufRes

\* No child is looked at from the inside.
PipeIdle ==
  /\ cfds = [n \in Fds |-> Free] /\ cpc = "none" /\ prog = <<>> /\ cip = 0
  /\ pipe = [n \in {"i", "e"} |-> <<>>]
  /\ sent = <<>> /\ fbuf = <<>> /\ got = <<>>

Init == LifeInit /\ BufIdle /\ PipeIdle

Next ==
  \/ \E h \in Handles : SpawnPipeFails(h)
  \/ \E h \in Handles : SpawnForkFails(h)
  \/ \E h \in Handles : SpawnAdapterFails(h)
  \/ \E h \in Handles : SpawnOk(h)
  \/ \E h \in Handles : Construct(h)
  \/ \E h, r \in Handles : MoveConstruct(h, r)
  \/ \E h, r \in Handles : MoveAssign(h, r)
  \/ \E h, r \in Handles : Swap(h, r)
  \/ \E h \in Handles : Destroy(h)
  \/ \E h \in Handles : Poll(h)
  \/ \E h \in Handles : Detach(h)
  \/ \E h \in Handles, sig \in Signals : Raise(h, sig)
  \/ \E h \in Handles : JoinCall(h)
  \/ JoinWait
  \/ JoinInterrupted
  \/ \E h \in Handles : TryJoinCall(h)
  \/ TjGuard
  \/ TjNanosleep
  \/ TjInterrupted
  \/ TjTimeout
  \/ \E k \in Attempts : ChildReturns(k)
  \/ \E k \in Attempts : ChildThrows(k)
  \/ \E k \in Attempts : ChildEscapes(k)
  \/ \E k \in Attempts : ChildSignal(k)
  \/ \E k \in Attempts : ExternalReap(k)
  \/ \E k \in Attempts : PidReuse(k)
  \/ SetSigchld
  \/ Interrupt

Spec == Init /\ [][Next]_vars

\* ================================================================ ifilebuf
\* The get area is the one char buffer_: eback() = &buffer_ (0),
\* egptr() = &buffer_ + 1 (1), and bgptr is gptr() - eback().  bfile holds the
\* bytes the FILE delivers and bpos how many of them fgetc and fread took.
Bytes == {1, 2}
AnyByte == {0, 1, 2}               \* what the uninitialised buffer_ may hold
EOF == -1                          \* traits_type::eof()
eback == 0
egptr == 1
Inputs == UNION {[1..n -> Bytes] : n \in 0..MaxLen}

Buf == [pos |-> bpos, buf |-> bbuf, gptr |-> bgptr]
Min(a, b) == IF a < b THEN a ELSE b

\* ifilebuf(int fd): setg(&buffer_, &buffer_ + 1, &buffer_ + 1); buffer_ is
\* not initialised.
ifilebuf(garbage) == [pos |-> 0, buf |-> garbage, gptr |-> egptr]

\* ifilebuf::underflow()
underflow(b) ==
  IF b.pos < Len(bfile)
    THEN [b |-> [b EXCEPT !.pos = b.pos + 1, !.buf = bfile[b.pos + 1],
                          !.gptr = b.gptr - 1],
          ret |-> bfile[b.pos + 1]]
    ELSE [b |-> b, ret |-> EOF]

\* std::streambuf::uflow(): underflow(), then the char at gptr() and gbump(1)
uflow(b) ==
  LET u == underflow(b) IN
  IF u.ret = EOF THEN u
  ELSE [b |-> [u.b EXCEPT !.gptr = u.b.gptr + 1], ret |-> u.b.buf]

\* std::streambuf::sbumpc() and sgetc()
sbumpc(b) ==
  IF b.gptr < egptr THEN [b |-> [b EXCEPT !.gptr = b.gptr + 1], ret |-> b.buf]
  ELSE uflow(b)
sgetc(b) == IF b.gptr < egptr THEN [b |-> b, ret |-> b.buf] ELSE underflow(b)

\* ifilebuf::xsgetn(s, n): the buffered char if there is one, then fread
xsgetn(b, n) ==
  LET c == IF n > 0 /\ b.gptr < egptr THEN 1 ELSE 0
      b1 == IF c = 1 THEN [b EXCEPT !.gptr = b.gptr + 1] ELSE b
      m == Min(n - c, Len(bfile) - b.pos)
  IN [b |-> [b1 EXCEPT !.pos = b.pos + m],
      ret |-> c + m,
      out |-> (IF c = 1 THEN <<b.buf>> ELSE <<>>) \o SubSeq(bfile, b.pos + 1, b.pos + m)]

\* ifilebuf::pbackfail(ch)
pbackfail(b, ch) ==
  IF eback < b.gptr
    THEN [b |-> [b EXCEPT !.buf = IF ch # EOF THEN ch ELSE b.buf,
                          !.gptr = b.gptr - 1],
          ret |-> 0]
    ELSE [b |-> b, ret |-> EOF]

\* std::streambuf::sungetc() and sputbackc(c)
sungetc(b) ==
  IF eback < b.gptr THEN [b |-> [b EXCEPT !.gptr = b.gptr - 1], ret |-> b.buf]
  ELSE pbackfail(b, EOF)
sputbackc(b, c) ==
  IF eback < b.gptr /\ c = b.buf
    THEN [b |-> [b EXCEPT !.gptr = b.gptr - 1], ret |-> c]
    ELSE pbackfail(b, c)

\* What the caller has consumed: a successful putback takes the last byte back.
Front(q) == IF q = <<>> THEN q ELSE SubSeq(q, 1, Len(q) - 1)
BufRes(op, ok, byte, n) == [op |-> op, ok |-> ok, byte |-> byte, n |-> n, can |-> bcan]
SetBuf(b) == bpos' = b.pos /\ bbuf' = b.buf /\ bgptr' = b.gptr

\* istream::get()
BGet ==
  /\ LET r == sbumpc(Buf) IN
       /\ SetBuf(r.b)
       /\ bhist' = IF r.ret = EOF THEN bhist ELSE Append(bhist, r.ret)
       /\ bcan' = IF r.ret = EOF THEN bcan ELSE TRUE
       /\ bres' = BufRes("get", r.ret # EOF, r.ret, 0)
  /\ UNCHANGED <<bfile, lifeVars, pipeVars>>

\* istream::peek()
BPeek ==
  /\ LET r == sgetc(Buf) IN
       /\ SetBuf(r.b)
       /\ bres' = BufRes("peek", r.ret # EOF, r.ret, 0)
  /\ UNCHANGED <<bfile, bhist, bcan, lifeVars, pipeVars>>

\* istream::read(buffer, n)
BRead ==
  /\ \E n \in 0..MaxLen :
       LET r == xsgetn(Buf, n) IN
       /\ SetBuf(r.b)
       /\ bhist' = bhist \o r.out
       /\ bcan' = IF r.ret > 0 THEN TRUE ELSE bcan
       /\ bres' = BufRes("read", r.ret = n, -1, r.ret)
  /\ UNCHANGED <<bfile, lifeVars, pipeVars>>

\* istream::unget()
BUnget ==
  /\ LET r == sungetc(Buf) IN
       /\ SetBuf(r.b)
       /\ bhist' = IF r.ret = EOF THEN bhist ELSE Front(bhist)
       /\ bcan' = IF r.ret = EOF THEN bcan ELSE FALSE
       /\ bres' = BufRes("unget", r.ret # EOF, r.ret, 0)
  /\ UNCHANGED <<bfile, lifeVars, pipeVars>>

\* istream::putback(c), c the byte the caller consumed last (any byte when it
\* has consumed none)
BPutback ==
  /\ \E c \in Bytes :
       /\ bhist # <<>> => c = bhist[Len(bhist)]
       /\ LET r == sputbackc(Buf, c) IN
            /\ SetBuf(r.b)
            /\ bhist' = IF r.ret = EOF THEN bhist ELSE Front(bhist)
            /\ bcan' = IF r.ret = EOF THEN bcan ELSE FALSE
            /\ bres' = BufRes("putback", r.ret # EOF, c, 0)
  /\ UNCHANGED <<bfile, lifeVars, pipeVars>>

BufInit ==
  /\ bfile \in Inputs
  /\ \E garbage \in AnyByte :
       bpos = ifilebuf(garbage).pos /\ bbuf = garbage /\ bgptr = ifilebuf(garbage).gptr
  /\ bhist = <<>> /\ bcan = FALSE /\ bres = NoBufRes

InitBuf == LifeInit /\ BufInit /\ PipeIdle

NextBuf == BGet \/ BPeek \/ BRead \/ BUnget \/ BPutback

SpecBuf == InitBuf /\ [][NextBuf]_vars

\* ================================================== the child and the pipes
\* The child seen from the inside, right after process::process(fn) forked:
\* its descriptor table, the wiring of its standard streams, the entry point,
\* and the bytes that travel through the three pipes.  The entry point is a
\* script of reads of standard input and one-byte writes to standard output
\* and standard error; the stdout pipe is read by the parent through the
\* ifilebuf above (bfile: what was written into the pipe, bpos: what the FILE
\* took out of it).  A call that blocks is a step that waits to be enabled.
STDIN_FILENO == 0
STDOUT_FILENO == 1
STDERR_FILENO == 2

Ops == {"read", "out1", "out2", "err1"}
Programs == UNION {[1..n -> Ops] : n \in 0..MaxProg}
OpFd(op) == IF op = "err1" THEN STDERR_FILENO ELSE STDOUT_FILENO
OpByte(op) == IF op = "out2" THEN 2 ELSE 1

IsPrefix(a, b) == Len(a) <= Len(b) /\ SubSeq(b, 1, Len(a)) = a

\* fpo, fpi, fpe and the descriptor table at the ::fork() of the first spawn
AtFork ==
  OpenPipes([n \in Fds |-> IF n < 3 THEN Std ELSE IF n \in CallerFds THEN User ELSE Free],
            1, 3, [n \in PipeNames |-> <<-1, -1>>])

\* ::dup2(from, to)
dup2(t, from, to) == [t EXCEPT ![to] = t[from]]

\* write_to(fp, fd) and read_from(fp, fd)
write_to(t, fp, fd) == Close(dup2(t, fp[wr], fd), fp[rd])
read_from(t, fp, fd) == Close(dup2(t, fp[rd], fd), fp[wr])

\* The pipe a descriptor refers to, and who holds an end of a pipe open.
PipeOf(t, fd) == t[fd][2]
HasWriter(name) == \E n \in Fds : fds[n] = <<1, name, "wr">> \/ cfds[n] = <<1, name, "wr">>
HasReader(name) == \E n \in Fds : fds[n] = <<1, name, "rd">> \/ cfds[n] = <<1, name, "rd">>
Occupancy(name) == IF name = "o" THEN Len(bfile) - bpos ELSE Len(pipe[name])

\* What the entry point has written to a descriptor so far.
ChildWrote(fd) ==
  LET done == SelectSeq(SubSeq(prog, 1, cip), LAMBDA o : o # "read" /\ OpFd(o) = fd)
  IN [i \in 1..Len(done) |-> OpByte(done[i])]

childVars == <<cfds, cpc, prog, cip, got>>

\* child: write_to(fpo, STDOUT_FILENO)
WireOut ==
  /\ ~aborted /\ cpc = "write_to_o"
  /\ cfds' = write_to(cfds, AtFork.fpo, STDOUT_FILENO)
  /\ cpc' = "read_from_i"
  /\ UNCHANGED <<lifeVars, bufVars, prog, cip, pipe, sent, fbuf, got>>

\* child: read_from(fpi, STDIN_FILENO)
WireIn ==
  /\ ~aborted /\ cpc = "read_from_i"
  /\ cfds' = read_from(cfds, AtFork.fpi, STDIN_FILENO)
  /\ cpc' = "write_to_e"
  /\ UNCHANGED <<lifeVars, bufVars, prog, cip, pipe, sent, fbuf, got>>

\* child: write_to(fpe, STDERR_FILENO); the entry point is next
WireErr ==
  /\ ~aborted /\ cpc = "write_to_e"
  /\ cfds' = write_to(cfds, AtFork.fpe, STDERR_FILENO)
  /\ cpc' = "fn"
  /\ UNCHANGED <<lifeVars, bufVars, prog, cip, pipe, sent, fbuf, got>>

\* child: ::dup2 fails, posix::errno_error is thrown; catch(...) closes the
\* pipes and throws again, out of the constructor.
WireFails ==
  /\ ~aborted /\ cpc \in {"write_to_o", "read_from_i", "write_to_e"}
  /\ cfds' = Cleanup(cfds, AtFork)
  /\ cpc' = "escaped"
  /\ UNCHANGED <<lifeVars, bufVars, prog, cip, pipe, sent, fbuf, got>>

\* fn(): a read of one byte of standard input; it waits while the pipe is
\* empty and someone can still write to it, and sees the end of it otherwise.
FnRead ==
  /\ ~aborted /\ cpc = "fn" /\ cip < Len(prog) /\ prog[cip + 1] = "read"
  /\ LET name == PipeOf(cfds, STDIN_FILENO) IN
       /\ name \in DOMAIN pipe
       /\ IF pipe[name] # <<>>
            THEN /\ got' = Append(got, Head(pipe[name]))
                 /\ pipe' = [pipe EXCEPT ![name] = Tail(@)]
            ELSE /\ ~HasWriter(name)
                 /\ UNCHANGED <<got, pipe>>
  /\ cip' = cip + 1
  /\ UNCHANGED <<lifeVars, bufVars, cfds, cpc, prog, sent, fbuf>>

\* fn(): a write of one byte to standard output or standard error; it waits
\* while the pipe is full.
FnWrite ==
  /\ ~aborted /\ cpc = "fn" /\ cip < Len(prog) /\ prog[cip + 1] # "read"
  /\ LET op == prog[cip + 1]
         name == PipeOf(cfds, OpFd(op)) IN
       /\ name \in PipeNames /\ HasReader(name)
       /\ Occupancy(name) < PipeCap
       /\ IF name = "o"
            THEN bfile' = Append(bfile, OpByte(op)) /\ UNCHANGED pipe
            ELSE pipe' = [pipe EXCEPT ![name] = Append(@, OpByte(op))] /\ UNCHANGED bfile
  /\ cip' = cip + 1
  /\ UNCHANGED <<lifeVars, bpos, bbuf, bgptr, bhist, bcan, bres,
                 cfds, cpc, prog, sent, fbuf, got>>

\* code = fn() has returned and std::exit(code) ends the child, or the child
\* that left the constructor by an exception ends; its descriptors close.
ChildExits ==
  /\ ~aborted /\ child[1].st = "running"
  /\ (cpc = "fn" /\ cip = Len(prog)) \/ cpc = "escaped"
  /\ child' = [child EXCEPT ![1] =
       Ended(child[1], IF cpc = "escaped" THEN <<"escaped", 0>> ELSE <<"ret", 0>>)]
  /\ cur' = Notify(cur)
  /\ cfds' = [n \in Fds |-> Free]
  /\ cpc' = "exited"
  /\ UNCHANGED <<handle, fds, sigchld, nspawn, pc, result, aborted, bufVars,
                 prog, cip, pipe, sent, fbuf, got>>

\* std::fflush / the flush inside std::fputc: the bytes the FILE holds are
\* written to the descriptor of the write adapter.  The write waits for room
\* in the pipe; with nobody left to read it, SIGPIPE ends the parent.
FlushTo(name, bytes) ==
  IF bytes # <<>> /\ ~HasReader(name)
    THEN aborted' = TRUE /\ UNCHANGED <<pipe, fbuf, sent>>
    ELSE /\ name \in DOMAIN pipe
         /\ Len(pipe[name]) + Len(bytes) <= PipeCap
         /\ pipe' = [pipe EXCEPT ![name] = @ \o bytes]
         /\ UNCHANGED aborted

\* cin.put(c): ofilebuf::overflow(c), std::fputc(c, file_)
CinPut(h) ==
  /\ Idle /\ handle[h].alive /\ handle[h].cin # 0 /\ Len(sent) < MaxIn
  /\ \E c \in Bytes :
       IF Len(fbuf) < FileCap
         THEN /\ fbuf' = Append(fbuf, c) /\ sent' = Append(sent, c)
              /\ UNCHANGED <<pipe, aborted>>
         ELSE /\ FlushTo(PipeOf(fds, handle[h].cin), fbuf)
              /\ ~aborted' => (fbuf' = <<c>> /\ sent' = Append(sent, c))
  /\ UNCHANGED <<handle, child, fds, sigchld, nspawn, pc, cur, result, bufVars, childVars>>

\* cin.flush(): ofilebuf::sync(), std::fflush(file_)
CinFlush(h) ==
  /\ Idle /\ handle[h].alive /\ handle[h].cin # 0
  /\ FlushTo(PipeOf(fds, handle[h].cin), fbuf)
  /\ ~aborted' => (fbuf' = <<>> /\ sent' = sent)
  /\ UNCHANGED <<handle, child, fds, sigchld, nspawn, pc, cur, result, bufVars, childVars>>

\* cout.get(), cout.read(buffer, n), cout.unget(): the reads of ifilebuf on
\* the read end of the stdout pipe; fgetc and fread come back short only when
\* the pipe is empty and nobody can write to it any more.
CoutGet(h) ==
  /\ Idle /\ handle[h].alive /\ handle[h].cout # 0
  /\ BGet
  /\ bres'.ok \/ ~HasWriter(PipeOf(fds, handle[h].cout))

CoutRead(h) ==
  /\ Idle /\ handle[h].alive /\ handle[h].cout # 0
  /\ BRead
  /\ bres'.ok \/ ~HasWriter(PipeOf(fds, handle[h].cout))

CoutUnget(h) ==
  /\ Idle /\ handle[h].alive /\ handle[h].cout # 0
  /\ BUnget

\* process::process(fn) has forked and returned in the parent; the child is
\* about to wire its standard streams.
InitPipes ==
  /\ handle = [h \in Handles |->
       IF h = 1
         THEN [DefaultHandle EXCEPT !.id = Pid(1), !.state = "running", !.ch = 1,
                 !.fbo = AtFork.fpo[rd], !.cout = AtFork.fpo[rd],
                 !.fbi = AtFork.fpi[wr], !.cin = AtFork.fpi[wr],
                 !.fbe = AtFork.fpe[rd], !.cerr = AtFork.fpe[rd]]
         ELSE NoHandle]
  /\ child = [k \in Attempts |-> IF k = 1 THEN ChildBorn ELSE NoChild]
  /\ fds = ParentEnds(AtFork.t, AtFork, 3)
  /\ sigchld = "dfl" /\ nspawn = 1 /\ pc = "idle" /\ cur = NoCall
  /\ result = Spawned(1, "ok", "forked") /\ aborted = FALSE
  /\ bfile = <<>>
  /\ \E garbage \in AnyByte :
       bpos = ifilebuf(garbage).pos /\ bbuf = garbage /\ bgptr = ifilebuf(garbage).gptr
  /\ bhist = <<>> /\ bcan = FALSE /\ bres = NoBufRes
  /\ cfds = AtFork.t /\ cpc = "write_to_o" /\ prog \in Programs /\ cip = 0
  /\ pipe = [n \in {"i", "e"} |-> <<>>]
  /\ sent = <<>> /\ fbuf = <<>> /\ got = <<>>

NextPipes ==
  \/ WireOut
  \/ WireIn
  \/ WireErr
  \/ WireFails
  \/ FnRead
  \/ FnWrite
  \/ ChildExits
  \/ \E h \in Handles : CinPut(h)
  \/ \E h \in Handles : CinFlush(h)
  \/ \E h \in Handles : CoutGet(h)
  \/ \E h \in Handles : CoutRead(h)
  \/ \E h \in Handles : CoutUnget(h)
  \/ \E h \in Handles : JoinCall(h)
  \/ JoinWait

\* Parent and child are both scheduled: while a step is possible, one is taken.
SpecPipes == InitPipes /\ [][NextPipes]_vars /\ WF_vars(NextPipes)

\* C5: the bytes delivered to the caller, a successful putback taking the
\* last one back, are always the first bytes of the input, in order and once
\* each (so the byte read after a putback is the byte consumed last).
ReadsReproduceInput ==
  /\ Len(bhist) <= Len(bfile)
  /\ \A i \in 1..Len(bhist) : bhist[i] = bfile[i]

\* C6: putback (unget or putback(c)) succeeds exactly when a byte has been
\* consumed and the byte consumed last has not been pushed back already, and
\* fails with eof otherwise.
PutbackIffConsumed ==
  bres.op \in {"unget", "putback"} => (bres.ok <=> bres.can)

\* ========================================================= the lifecycle
\* The child a handle was spawned for (0: none, or given up by detach).
ChOf(h) == handle[h].ch
HasChild(h) == handle[h].alive /\ ChOf(h) # 0

\* The child ended by exiting (it was not killed).
HasExited(c) == Terminated(c) /\ c.fate[1] # "killed"

\* C1: try_join_for returns false only if the child has still not terminated
\* when the sleep is over; a child that terminates anywhere between the start
\* of the call and the end of the sleep makes it return true.
TimedJoinSeesExit ==
  [][TjTimeout => ~Terminated(child[ChOf(cur.h)])]_vars

\* C2: NotStarted, Exited and Signaled handles are not joinable; Running and
\* Stopped handles are.
StateDecidesJoinable ==
  \A h \in Handles : handle[h].alive =>
    /\ handle[h].state \in {"not_started", "exited", "signaled"} => ~joinable(handle[h])
    /\ handle[h].state \in {"running", "stopped"} => joinable(handle[h])

\* C3: a spawn that reports an error leaves no child process of its own and
\* none of its pipe descriptors open in the parent; one that does not yields
\* a Running handle with its three adapters attached.
SpawnIsAtomic ==
  result.op = "spawn" =>
    IF result.err = "ok"
      THEN LET p == handle[result.h] IN
           /\ p.alive /\ p.state = "running" /\ p.id = Pid(nspawn)
           /\ p.fbo # 0 /\ p.fbi # 0 /\ p.fbe # 0
           /\ p.cout = p.fbo /\ p.cin = p.fbi /\ p.cerr = p.fbe
      ELSE /\ ~handle[result.h].alive
           /\ child[nspawn].st \notin {"running", "stopped", "zombie"}
           /\ \A n \in Fds : fds[n][1] # nspawn

\* C4: whatever happens in the child after the fork, the child ends through
\* std::exit; no exception takes it back into the caller's code.
ChildEndsByExit ==
  \A k \in Attempts : child[k].fate[1] # "escaped"

\* C7 as stated: raise with a termination signal on a spawned, non-detached
\* handle whose child has exited completes without error, whether or not the
\* handle has observed the exit.
RaiseAtExitedSucceeds ==
  [][\A h \in Handles, sig \in TermSignals :
       (Raise(h, sig) /\ HasChild(h) /\ HasExited(child[ChOf(h)]))
         => result'.err = "ok"]_vars

\* C7 as amended: with the child exited and its pid not given to another
\* process, raise with a termination signal completes without error exactly
\* while the handle is joinable, and throws invalid_argument once the handle
\* has cleared its identifier.
RaiseAtExitedWhileJoinable ==
  [][\A h \in Handles, sig \in TermSignals :
       (Raise(h, sig) /\ HasChild(h) /\ HasExited(child[ChOf(h)])
          /\ child[ChOf(h)].st # "reused")
         => result'.err = IF joinable(handle[h]) THEN "ok" ELSE "invalid_argument"]_vars

\* A raise of a termination signal on a handle that has observed the exit.
RaiseAfterObservedExit ==
  /\ result.op = "raise" /\ result.ret = "term" /\ result.err = "invalid_argument"
  /\ HasChild(result.h) /\ handle[result.h].state = "exited"
  /\ child[ChOf(result.h)].fate[1] = "ret"

\* C8: a poll of a joinable handle whose child is stopped reports Stopped with
\* the stopping signal and leaves the handle joinable; a poll of a Stopped
\* handle whose child runs again reports Running.
StopResumeLifecycle ==
  [][\A h \in Handles :
       (Poll(h) /\ HasChild(h) /\ joinable(handle[h])) =>
         /\ child[ChOf(h)].st = "stopped" =>
              /\ result'.ret = "stopped"
              /\ handle'[h].signal = child[ChOf(h)].stopsig
              /\ joinable(handle'[h])
         /\ (handle[h].state = "stopped" /\ child[ChOf(h)].st = "running") =>
              result'.ret = "running"]_vars

\* C9: destroying a handle, or move-assigning onto it, terminates the program
\* exactly if the handle is joinable, and never for a handle that join() just
\* returned on, that try_join_for just reported joined or that was detached.
Joined(h) ==
  /\ result.h = h
  /\ \/ result.op = "join" /\ result.err = "ok"
     \/ result.op = "try_join_for" /\ result.err = "ok" /\ result.ret = "true"
     \/ result.op = "detach"
DestroyAfterJoinIsSafe ==
  [][\A h \in Handles :
       ((Destroy(h) \/ \E r \in Handles : MoveAssign(h, r)) =>
          /\ aborted' <=> joinable(handle[h])
          /\ Joined(h) => ~aborted')]_vars

\* C10: after join() has reaped the child, the handle tells how the child
\* ended: Exited with the code the entry point returned (0..255), Exited with
\* an unsuccessful code if it threw, Signaled with the signal that killed it.
JoinReportsOutcome ==
  (result.op = "join" /\ result.err = "ok" /\ result.ret = "reaped") =>
    LET p == handle[result.h]
        f == child[p.ch].fate IN
    /\ (f[1] = "ret" /\ f[2] \in 0..255) => (p.state = "exited" /\ p.code = f[2])
    /\ f[1] = "threw" => (p.state = "exited" /\ p.code \in 1..255)
    /\ f[1] = "killed" => (p.state = "signaled" /\ p.signal = f[2])

\* join() has returned on a child whose entry point returned 7.
JoinedExitSeven ==
  /\ result.op = "join" /\ result.err = "ok" /\ result.ret = "reaped"
  /\ child[ChOf(result.h)].fate = <<"ret", 7>>
  /\ handle[result.h].state = "exited" /\ handle[result.h].code = 7

\* C11: when ::waitpid fails with ECHILD, state() and join() throw nothing:
\* they set the state to NotStarted and return; when it fails with another
\* error (EINTR in join) the error is thrown and the handle is left as it was.
NoChildIsNotAnError ==
  [][/\ \A h \in Handles :
          (/\ Poll(h)
           /\ handle[h].state \in {"running", "stopped"}
           /\ WaitPid(child, handle[h].id, TRUE).ret = "echild")
            => /\ result'.err = "ok" /\ result'.ret = "not_started"
               /\ handle'[h].state = "not_started"
     /\ (JoinWait /\ WaitPid(child, handle[cur.h].id, FALSE).ret = "echild")
            => /\ pc' = "idle"
               /\ result'.op = "join" /\ result'.err = "ok"
               /\ handle'[cur.h].state = "not_started"
     /\ JoinInterrupted
            => /\ result'.op = "join" /\ result'.err = "interrupted"
               /\ handle' = handle]_vars

\* join() has returned normally on a child that was no longer there.
JoinedWithoutChild ==
  /\ result.op = "join" /\ result.err = "ok" /\ result.ret = "nochild"
  /\ handle[result.h].state = "not_started"
  /\ child[ChOf(result.h)].st \in {"gone", "reused"}

\* C12: detach() throws nothing, leaves the handle not joinable and NotStarted
\* and does nothing to the child; whatever the child does afterwards, and
\* whatever is asked of the handle about it, the handle stays as detach left it.
DetachForgetsChild ==
  [][\A h \in Handles :
       /\ Detach(h)
            => /\ result'.err = "ok"
               /\ ~joinable(handle'[h]) /\ handle'[h].state = "not_started"
               /\ child' = child
       /\ (/\ handle[h].alive /\ ChOf(h) = 0
           /\ ~joinable(handle[h]) /\ handle[h].state = "not_started"
           /\ \/ child' # child
              \/ Poll(h) \/ JoinCall(h) \/ TryJoinCall(h)
              \/ \E sig \in Signals : Raise(h, sig))
            => handle'[h] = handle[h]]_vars

\* The only handle left was polled after the child it had detached from ended:
\* the child is a zombie nobody waits for, the spawn's adapters are still open.
DetachedSurvivesExit ==
  /\ result.op = "state" /\ result.ret = "not_started"
  /\ handle[result.h].alive /\ ~joinable(handle[result.h])
  /\ \A h \in Handles : ChOf(h) = 0 /\ (h # result.h => ~handle[h].alive)
  /\ child[1].st = "zombie"
  /\ \E n \in Fds : fds[n][1] = 1

\* C13: whichever way a try_join_for call ends (usage error, child already
\* ended, joined during the sleep, timeout, error of the sleep), the SIGCHLD
\* disposition after the call is the one from before the call, never the
\* no-op handler of the guard.
HandlerRestored ==
  [][/\ (\E h \in Handles : TryJoinCall(h)) => sigchld' = sigchld
     /\ TjGuard => cur'.saved = sigchld
     /\ (pc \in {"tj_nanosleep", "tj_sleep"} /\ pc' = "idle")
          => sigchld' = cur.saved /\ sigchld' # "noop"]_vars

\* A timed join timed out with SIGCHLD ignored before and after it.
TimedOutHandlerBack ==
  /\ result.op = "try_join_for" /\ result.ret = "false"
  /\ pc = "idle" /\ sigchld = "ign"

\* C16: the cleanup of a failed spawn closes only descriptors that this spawn
\* created: what the caller held open before the spawn is still open after it.
CleanupSparesCaller ==
  (result.op = "spawn" /\ result.err # "ok") => \A n \in CallerFds : fds[n] = User

\* C17: the three streams of every handle are attached to the adapters the
\* same handle owns, or to none when it owns none.
StreamsFollowAdapters ==
  \A h \in Handles : handle[h].alive =>
    /\ handle[h].cin = handle[h].fbi
    /\ handle[h].cout = handle[h].fbo
    /\ handle[h].cerr = handle[h].fbe

\* C18: once the handle has seen that its child is no longer there (state
\* NotStarted) or has reaped it (Exited, Signaled), a raise on it sends no
\* signal to the stored pid: it ends with the usage error before ::kill.
RaiseOnlyAtOwnChild ==
  [][\A h \in Handles, sig \in Signals :
       (Raise(h, sig) /\ handle[h].state \in {"not_started", "exited", "signaled"})
         => result'.err = "invalid_argument" /\ child' = child]_vars

\* C20: every pipe descriptor open in the parent is held by an adapter of a
\* handle that still exists; the descriptors of a destroyed handle are closed.
AdaptersCloseWithHandle ==
  \A n \in Fds : fds[n][2] \in PipeNames =>
    \E h \in Handles :
      handle[h].alive /\ n \in {handle[h].fbi, handle[h].fbo, handle[h].fbe}

\* C14: the bytes the child has read from its standard input are the first
\* of the bytes the parent wrote to cin, and after a flush all of them are read
\* or wait in the pipe; what went into the stdout and the stderr pipe is what
\* the entry point wrote to descriptor 1 and to descriptor 2; and the bytes
\* the parent has read from cout are the first of those of the stdout pipe.
PipesCarryBytesInOrder ==
  cpc # "none" =>
    /\ IsPrefix(got, sent)
    /\ got \o pipe["i"] \o fbuf = sent
    /\ bfile = ChildWrote(STDOUT_FILENO)
    /\ pipe["e"] = ChildWrote(STDERR_FILENO)
    /\ IsPrefix(bhist, bfile)

\* C15: after write_to(fpo, STDOUT_FILENO) descriptor 1 is the write end of
\* the stdout pipe and both descriptors of fpo are closed; when the entry
\* point starts, 0, 1 and 2 are the child's ends of the three pipes and the
\* child holds no other pipe descriptor.
WiringLeavesThreePipeEnds ==
  /\ cpc \in {"read_from_i", "write_to_e", "fn"} =>
       /\ cfds[STDOUT_FILENO] = <<1, "o", "wr">>
       /\ cfds[AtFork.fpo[rd]] = Free /\ cfds[AtFork.fpo[wr]] = Free
  /\ cpc = "fn" =>
       /\ cfds[STDIN_FILENO] = <<1, "i", "rd">>
       /\ cfds[STDERR_FILENO] = <<1, "e", "wr">>
       /\ \A n \in Fds : cfds[n][2] \in PipeNames =>
            n \in {STDIN_FILENO, STDOUT_FILENO, STDERR_FILENO}

\* C19: a join() that has been entered returns, whatever the entry point
\* reads and writes and whatever the parent did with the streams before.
JoinAlwaysReturns == (pc = "join") ~> (pc = "idle")

=============================================================================
